---- MODULE Spec2Model ----
(***************************************************************************)
(* Model of the Mobbin Vault extension: the Page Agent of content.js (v3   *)
(* FIXED, src/content.js lines 332-739), the extension's storage key       *)
(* "apps", and the dashboard's writers of that key (src/dashboard.js).     *)
(*                                                                         *)
(* Strings are sequences of tokens.  The delimiters the code splits on     *)
(* ("/", "?", "#", " ", the em dash) are tokens of their own; every other  *)
(* token is an indivisible piece of text.                                  *)
(***************************************************************************)
EXTENDS Integers, Sequences, FiniteSets, TLC

VARIABLES
  isScraping,        \* content.js:357
  scrapingAborted,   \* content.js:358
  scans,             \* the performSmartScrape() invocations of this page context;
                     \* a settled one gives its place to the next invocation
  page,              \* the document and window of the page context
  storage,           \* chrome.storage.local, key "apps"
  now,               \* the clock Date.now() reads
  appsData,          \* dashboard.js:4
  currentApp,        \* dashboard.js:6
  started,           \* history: the start_scrape requests accepted so far
  lastStart,         \* history: what the most recent start_scrape met and got
  lastSave,          \* history: the save of a scan that wrote the store last,
                     \* while nothing else has written it since
  trigger,           \* the popup: handleScan's position, the scan button, the
                     \* status line and the start_scrape request it has sent
  worker             \* the service worker's view of chrome.storage.local: the
                     \* bytes in use and its last answer to check_storage

vars == <<isScraping, scrapingAborted, scans, page, storage, now,
          appsData, currentApp, started, lastStart, lastSave, trigger, worker>>

(***************************************************************************)
(* Program constants (CONFIG, content.js:336-341).                         *)
(***************************************************************************)
SCROLL_THRESHOLD == 100
MAX_NO_CONTENT_ATTEMPTS == 2
MAX_RETRY_ATTEMPTS == 3

(***************************************************************************)
(* Bounds of the model.                                                    *)
(***************************************************************************)
MaxScans == 2        \* start_scrape requests accepted in one run (Spec)
MaxTime == 2         \* the clock stops ticking here
MaxIter == 6         \* successful loop iterations of one scan
MaxBatch == 2        \* img elements in one DOM snapshot (SpecHarvest)
MaxSaves == 3        \* scans started in one run of SpecStore
MaxPageUnits == 4    \* tallest page, in units of 100px (SpecScroll)
MaxLogos == 2        \* img elements matching the AppLogoImage selectors (SpecLogo)
MaxWindow == 3       \* kilobytes sampled on either side of 80% of the quota (SpecQuota)

(***************************************************************************)
(* Sequence helpers.                                                       *)
(***************************************************************************)
RECURSIVE IndexOfFrom(_, _, _)
IndexOfFrom(s, x, i) ==
  IF i > Len(s) THEN 0
  ELSE IF s[i] = x THEN i ELSE IndexOfFrom(s, x, i + 1)

\* String.prototype.split(sep)[0]: the text before the first separator.
SplitFirst(s, sep) ==
  LET i == IndexOfFrom(s, sep, 1)
  IN  IF i = 0 THEN s ELSE SubSeq(s, 1, i - 1)

\* String.prototype.split(sep) followed by taking the last element.
RECURSIVE SplitLast(_, _)
SplitLast(s, sep) ==
  LET i == IndexOfFrom(s, sep, 1)
  IN  IF i = 0 THEN s ELSE SplitLast(SubSeq(s, i + 1, Len(s)), sep)

\* String.prototype.includes(x) for a delimiter or a whole token x.
Includes(s, x) == IndexOfFrom(s, x, 1) > 0

IsSpace(t) == t = " "

\* The em dash (U+2014) of content.js:435-436, as a token.
EmDash == "--"

\* String.prototype.trim()
RECURSIVE TrimLeft(_)
TrimLeft(s) ==
  IF s # <<>> /\ IsSpace(Head(s)) THEN TrimLeft(Tail(s)) ELSE s

RECURSIVE TrimRight(_)
TrimRight(s) ==
  IF s # <<>> /\ IsSpace(s[Len(s)]) THEN TrimRight(SubSeq(s, 1, Len(s) - 1)) ELSE s

Trim(s) == TrimRight(TrimLeft(s))

\* toLowerCase() on the tokens the model uses.
LowerTok(t) ==
  CASE t = "Foo" -> "foo"
    [] t = "Bar" -> "bar"
    [] OTHER -> t

\* name.replace(/\s+/g, '-').toLowerCase()   (content.js:645)
RECURSIVE Slugify(_)
Slugify(s) ==
  IF s = <<>> THEN <<>>
  ELSE IF IsSpace(Head(s))
       THEN <<"-">> \o Slugify(TrimLeft(s))
       ELSE <<LowerTok(Head(s))>> \o Slugify(Tail(s))

\* sanitizeText (content.js:728-732): textContent -> innerHTML escapes & < >
RECURSIVE sanitizeText(_)
sanitizeText(s) ==
  IF s = <<>> THEN <<>>
  ELSE (CASE Head(s) = "<" -> <<"&lt;">>
          [] Head(s) = ">" -> <<"&gt;">>
          [] Head(s) = "&" -> <<"&amp;">>
          [] OTHER -> <<Head(s)>>) \o sanitizeText(Tail(s))

(***************************************************************************)
(* URLs.  A URL string is <<scheme, "//", host, "/", segment, ...>>,       *)
(* optionally followed by "?", query and by "#", fragment.                 *)
(***************************************************************************)
\* String.prototype.includes('http') on a URL string (content.js:629).
IncludesHttp(u) ==
  \E i \in 1..Len(u) : u[i] \in {"http:", "https:", "blob:https:"}

\* isValidImageUrl accepting every non-empty string.
isValidImageUrlLax(u) == u # <<>>

\* isValidImageUrl (content.js:714-723): new URL(url) parses and the protocol
\* is http: or https:.
isValidImageUrl(u) ==
  /\ u # <<>>
  /\ u[1] \in {"http:", "https:"}

\* normalizeLogoUrl (content.js:508-516): origin + pathname.
normalizeLogoUrl(u) ==
  IF u = <<>> THEN <<>> ELSE SplitFirst(SplitFirst(u, "?"), "#")

(***************************************************************************)
(* The page: document and window.                                          *)
(*   hasH1, h1, title : the primary heading and document.title             *)
(*   href             : window.location.href                               *)
(*   scrollY, scrollHeight, innerHeight : window / document.body geometry  *)
(*   logoImgs   : the img elements matching the AppLogoImage selectors,    *)
(*                each [src, region, w, h], in document order              *)
(*   logoBox    : the elements 'div[AppLogo] img' matches (first one used) *)
(*   nearH1     : the img elements inside the heading's parent             *)
(***************************************************************************)
Min(a, b) == IF a < b THEN a ELSE b
Max(a, b) == IF a > b THEN a ELSE b

MaxScrollY(p) == Max(0, p.scrollHeight - p.innerHeight)

\* window.scrollTo(0, y) / window.scrollBy({top: dy}): clamped by the browser.
scrollTo(p, y) == [p EXCEPT !.scrollY = Max(0, Min(y, MaxScrollY(p)))]
scrollBy(p, dy) == scrollTo(p, p.scrollY + dy)

\* content.js:561-562
atBottom(p) == p.innerHeight + p.scrollY >= p.scrollHeight - SCROLL_THRESHOLD

\* extractMainLogo, strategy 1 (content.js:461-482): the candidates outside
\* nav/header/banner with a URL and a positive area; the largest one wins, the
\* earliest in document order among equals (Array.prototype.sort is stable).
LogoCandidates(imgs) ==
  SelectSeq(imgs, LAMBDA i :
     /\ i.region \notin {"nav", "header", "banner"}
     /\ normalizeLogoUrl(i.src) # <<>>
     /\ i.w * i.h > 0)

\* LargestFirst taking the first candidate in document order.
FirstCandidate(c) == c[1]

LargestFirst(c) ==
  LET best == CHOOSE k \in 1..Len(c) :
                 /\ \A j \in 1..Len(c) : c[j].w * c[j].h <= c[k].w * c[k].h
                 /\ \A j \in 1..(k - 1) : c[j].w * c[j].h < c[k].w * c[k].h
  IN  c[best]

\* extractMainLogo (content.js:459-503)
extractMainLogo(p) ==
  IF p.logoImgs # <<>> /\ LogoCandidates(p.logoImgs) # <<>>
  THEN normalizeLogoUrl(LargestFirst(LogoCandidates(p.logoImgs)).src)
  ELSE IF p.logoBox # <<>> /\ p.logoBox[1].region \notin {"nav", "header"}
  THEN normalizeLogoUrl(p.logoBox[1].src)
  ELSE IF /\ p.hasH1
          /\ p.nearH1 # <<>>
          /\ p.nearH1[1].region \notin {"nav", "header"}
          /\ p.nearH1[1].w >= 60
          /\ p.nearH1[1].h >= 60
  THEN normalizeLogoUrl(p.nearH1[1].src)
  ELSE <<>>

\* The placeholder of content.js:446, with the first character of the name.
Placeholder(name) ==
  <<"https:", "//", "via.placeholder.com", "/", "100", "?", "text=">>
    \o (IF name = <<>> THEN <<>> ELSE <<Head(name)>>)

\* content.js:434-439
AppName(p) ==
  sanitizeText(Trim(SplitFirst(IF p.hasH1 THEN p.h1 ELSE p.title, EmDash)))

\* A character outside the Basic Multilingual Plane, as a token: two UTF-16
\* code units, of which charAt(0) is the first, a lone surrogate.
Astral == "U+1F3B5"

\* content.js:445-446: encodeURIComponent throws URIError on a lone surrogate,
\* and getPageMeta with it.
MetaThrows(p) ==
  /\ extractMainLogo(p) = <<>> \/ ~isValidImageUrl(extractMainLogo(p))
  /\ AppName(p) # <<>>
  /\ Head(AppName(p)) = Astral

\* getPageMeta (content.js:432-454)
getPageMeta(p) ==
  LET appName == AppName(p)
      logoUrl == extractMainLogo(p)
  IN  [name |-> appName,
       logo |-> IF logoUrl = <<>> \/ ~isValidImageUrl(logoUrl)
                THEN Placeholder(appName) ELSE logoUrl,
       url  |-> p.href]

(***************************************************************************)
(* Harvest.  A DOM snapshot is the sequence, in document order, of the img *)
(* elements the screen selectors match, each [src, inLi].                  *)
(***************************************************************************)
\* extractImagesFromDOM (content.js:620-636)
RECURSIVE extractImagesFromDOM(_)
extractImagesFromDOM(dom) ==
  IF dom = <<>> THEN <<>>
  ELSE LET img == Head(dom)
           rest == extractImagesFromDOM(Tail(dom))
       IN  IF img.inLi THEN rest
           ELSE IF img.src # <<>> /\ IncludesHttp(img.src)
                THEN <<SplitFirst(img.src, "?")>> \o rest
                ELSE rest

\* MergeImages with a URL seen again moved to the end of the captured sequence.
RECURSIVE MergeImagesMoveLast(_, _)
MergeImagesMoveLast(cs, newImages) ==
  IF newImages = <<>> THEN cs
  ELSE LET url == Head(newImages)
       IN  IF isValidImageUrl(url)
           THEN MergeImagesMoveLast(
                  [capturedImages |->
                     Append(SelectSeq(cs.capturedImages, LAMBDA u : u # url), url),
                   scannedUrlSet  |-> cs.scannedUrlSet \cup {url}],
                  Tail(newImages))
           ELSE MergeImagesMoveLast(cs, Tail(newImages))

\* The newImages.forEach of content.js:549-555 on the pair
\* [capturedImages, scannedUrlSet].
RECURSIVE MergeImages(_, _)
MergeImages(cs, newImages) ==
  IF newImages = <<>> THEN cs
  ELSE LET url == Head(newImages)
       IN  IF url \notin cs.scannedUrlSet /\ isValidImageUrl(url)
           THEN MergeImages([capturedImages |-> Append(cs.capturedImages, url),
                             scannedUrlSet  |-> cs.scannedUrlSet \cup {url}],
                            Tail(newImages))
           ELSE MergeImages(cs, Tail(newImages))

(***************************************************************************)
(* saveToStorage (content.js:641-695), its synchronous pieces.             *)
(***************************************************************************)
\* content.js:643-645
AppId(href, name) ==
  LET last == SplitLast(href, "/")
  IN  IF last # <<>> THEN last ELSE Slugify(name)

\* NewAppData counting one screen too many.
NewAppDataMiscount(orderedImages, meta, href, t) ==
  [id          |-> AppId(href, meta.name),
   name        |-> meta.name,
   logo        |-> meta.logo,
   sourceUrl   |-> meta.url,
   screenCount |-> Len(orderedImages) + 1,
   screens     |-> orderedImages,
   dateAdded   |-> t,
   dateUpdated |-> t]

\* NewAppData taking the source URL from the location at save time.
NewAppDataCurrentUrl(orderedImages, meta, href, t) ==
  [id          |-> AppId(href, meta.name),
   name        |-> meta.name,
   logo        |-> meta.logo,
   sourceUrl   |-> href,
   screenCount |-> Len(orderedImages),
   screens     |-> orderedImages,
   dateAdded   |-> t,
   dateUpdated |-> t]

\* content.js:647-656
NewAppData(orderedImages, meta, href, t) ==
  [id          |-> AppId(href, meta.name),
   name        |-> meta.name,
   logo        |-> meta.logo,
   sourceUrl   |-> meta.url,
   screenCount |-> Len(orderedImages),
   screens     |-> orderedImages,
   dateAdded   |-> t,
   dateUpdated |-> t]

\* findIndex matching on the id alone.
RECURSIVE FindIndexByIdFrom(_, _, _, _)
FindIndexByIdFrom(apps, name, id, i) ==
  IF i > Len(apps) THEN 0
  ELSE IF apps[i].id = id THEN i
  ELSE FindIndexByIdFrom(apps, name, id, i + 1)

findIndexById(apps, name, id) == FindIndexByIdFrom(apps, name, id, 1)

\* apps.findIndex(a => a.name === meta.name || a.id === appId), content.js:663-665.
\* 0 stands for the source's -1.
RECURSIVE FindIndexFrom(_, _, _, _)
FindIndexFrom(apps, name, id, i) ==
  IF i > Len(apps) THEN 0
  ELSE IF apps[i].name = name \/ apps[i].id = id THEN i
  ELSE FindIndexFrom(apps, name, id, i + 1)

findIndex(apps, name, id) == FindIndexFrom(apps, name, id, 1)

\* Upsert that forgets to carry dateAdded over on an update.
UpsertFreshDate(apps, newAppData, existingIndex) ==
  IF existingIndex > 0
  THEN [apps EXCEPT ![existingIndex] = newAppData]
  ELSE <<newAppData>> \o apps

\* Upsert that merges the old entry's screens into the new record.
UpsertMergeScreens(apps, newAppData, existingIndex) ==
  IF existingIndex > 0
  THEN [apps EXCEPT ![existingIndex] =
          [newAppData EXCEPT !.dateAdded = apps[existingIndex].dateAdded,
                             !.screens = apps[existingIndex].screens \o
                                SelectSeq(newAppData.screens, LAMBDA u :
                                  \A k \in 1..Len(apps[existingIndex].screens) :
                                     apps[existingIndex].screens[k] # u)]]
  ELSE <<newAppData>> \o apps

\* Upsert that appends a new record at the end.
UpsertAtEnd(apps, newAppData, existingIndex) ==
  IF existingIndex > 0
  THEN [apps EXCEPT ![existingIndex] =
          [newAppData EXCEPT !.dateAdded = apps[existingIndex].dateAdded]]
  ELSE Append(apps, newAppData)

\* content.js:667-674
Upsert(apps, newAppData, existingIndex) ==
  IF existingIndex > 0
  THEN [apps EXCEPT ![existingIndex] =
          [newAppData EXCEPT !.dateAdded = apps[existingIndex].dateAdded]]
  ELSE <<newAppData>> \o apps

(***************************************************************************)
(* One performSmartScrape() invocation.  pc is the await it is suspended   *)
(* at: "initial_delay" (content.js:536), "scroll_delay" (579),             *)
(* "retry_delay" (589), "storage_get" (659), "storage_set" (677), or       *)
(* "done" once its promise has settled and the response has been sent.     *)
(* The fields from harvested on are history, not program state.            *)
(***************************************************************************)
NoMeta == [name |-> <<>>, logo |-> <<>>, url |-> <<>>]

\* What the get_meta handler sends (content.js:376-386): the metadata, or the
\* message of the error getPageMeta threw; answered tells the two from no answer.
NoAnswer == [answered |-> FALSE, error |-> "", meta |-> NoMeta]

NoApp == [id |-> <<>>, name |-> <<>>, logo |-> <<>>, sourceUrl |-> <<>>,
          screenCount |-> 0, screens |-> <<>>, dateAdded |-> 0, dateUpdated |-> 0]

NoResult == [status |-> "none", message |-> "", count |-> 0,
             appName |-> <<>>, isUpdate |-> FALSE]

\* lastSave while the store is not as a scan's save left it.
\*   app      : the entry the save wrote, index : its position,
\*   replaced : the entry it overwrote (NoApp for an insert),
\*   repeat   : the save before it wrote the same scan result.
NoSave == [app |-> NoApp, index |-> 0, replaced |-> NoApp, repeat |-> FALSE]

\* Two records of the same page with the same captured sequence.
SameScan(a, b) ==
  /\ a.id = b.id
  /\ a.name = b.name
  /\ a.logo = b.logo
  /\ a.sourceUrl = b.sourceUrl
  /\ a.screens = b.screens

\* The popup before the scan button is clicked.
\*   pc       : "idle", "ping" (background.js:403), "race" (414),
\*              "complete" (the success display of 433-436)
\*   disabled : elements.btnScan.disabled
\*   status   : the type and text updateStatus showed last
\*   request  : the start_scrape message of sendScrapeMessage: "none",
\*              "sent", "accepted" by the Page Agent, "rejected" by it
\*   scan     : the invocation an accepted request started
\*   open     : the popup is open and its listeners receive messages
\*   meta     : the last answer to its get_meta request
\*   timedOutIn : where its scan was suspended when SCAN_TIMEOUT last fired
NoTrigger == [pc |-> "idle", disabled |-> FALSE, type |-> "none", text |-> "",
              request |-> "none", scan |-> 0, open |-> TRUE, meta |-> NoAnswer,
              timedOutIn |-> "none"]

\* What checkStorageSize answers.  mbInUse and percentUsed are the decimal
\* strings of toFixed, kept as their count of hundredths and of tenths.
NoUsage == [failed |-> FALSE, error |-> <<>>, bytesInUse |-> 0, mbInUse |-> 0,
            percentUsed |-> 0, nearLimit |-> FALSE]

\* The service worker before any check_storage request:
\*   bytesInUse : what chrome.storage.local.getBytesInUse() reads now
\*   asked      : a check_storage request has been answered
\*   result     : the last answer
NoWorker == [bytesInUse |-> 0, asked |-> FALSE, result |-> NoUsage]

Aborted == [NoResult EXCEPT !.status = "aborted",
                            !.message = "Scrape cancelled by user"]

\* Failed that leaves the error unconverted: no terminal status.
FailedUnhandled(msg) == [NoResult EXCEPT !.message = msg]

\* The catch of content.js:608-614 (and the .catch of 405-411).
Failed(msg) == [NoResult EXCEPT !.status = "error", !.message = msg]

\* Success that always reports a fresh insert.
SuccessAsInsert(n, name, upd) ==
  [NoResult EXCEPT !.status = "success", !.count = n, !.appName = name]

\* content.js:679-684
Success(n, name, upd) ==
  [NoResult EXCEPT !.status = "success", !.count = n, !.appName = name,
                   !.isUpdate = upd]

\* content.js:530-532 and the first await
NewScan(meta) ==
  [pc |-> "initial_delay", initialMeta |-> meta,
   capturedImages |-> <<>>, scannedUrlSet |-> {}, retryCount |-> 0,
   viewportHeight |-> 0, totalHeight |-> 0, noNewContentCount |-> 0,
   newAppData |-> NoApp, apps |-> <<>>, existingIndex |-> 0,
   result |-> NoResult,
   harvested |-> <<>>,      \* the batches extractImagesFromDOM returned, concatenated
   iters |-> 0,             \* iterations whose harvest did not throw
   stableIters |-> 0,       \* those since the page height last changed
   bottomIters |-> 0,       \* those of stableIters that saw atBottom
   bottomStreak |-> 0,      \* the latest iterations in a row that each saw
                            \* atBottom with the height the loop had recorded
   abortedAt |-> 0,         \* captured count when abort_scrape came in a loop wait
   abortedIn |-> "none",    \* where it was suspended when abort_scrape first came
   clearedFlag |-> FALSE,   \* its start_scrape found the cancellation flag set
   readApps |-> <<>>,       \* the store as chrome.storage.local.get returned it
   savedAt |-> 0,           \* the clock when saveToStorage was called
   wrote |-> FALSE,         \* its chrome.storage.local.set has resolved
   converged |-> FALSE,     \* the loop ended by the break of content.js:568
   kept |-> 0,              \* the captured count when it did
   failure |-> "none",      \* the kind of error its storage call met
   responses |-> 0,         \* sendResponse calls of its start_scrape
   lost |-> 0]              \* progress notifications that found no receiver

\* The settled invocation: the .then/.catch of content.js:399-412 has run.
Settled(sc, res) ==
  [NewScan(NoMeta) EXCEPT !.pc = "done", !.result = res,
                          !.abortedAt = sc.abortedAt, !.abortedIn = sc.abortedIn,
                          !.clearedFlag = sc.clearedFlag,
                          !.wrote = sc.wrote,
                          !.converged = sc.converged, !.kept = sc.kept,
                          !.failure = sc.failure,
                          !.responses = sc.responses + 1]

LoopWaits == {"initial_delay", "scroll_delay", "retry_delay"}
InLoop == {"scroll_delay", "retry_delay"}

ScanIds == 1..Len(scans)

ActiveLoops == {s \in ScanIds : scans[s].pc \in InLoop}

\* The new invocation takes the first place holding a settled one, or a new place.
Put(ss, sc) ==
  IF \E s \in 1..Len(ss) : ss[s].pc = "done"
  THEN [ss EXCEPT ![CHOOSE s \in 1..Len(ss) :
                      /\ ss[s].pc = "done"
                      /\ \A r \in 1..(s - 1) : ss[r].pc # "done"] = sc]
  ELSE Append(ss, sc)

\* content.js:538-541, run when the initial delay ends.
Entered(sc, p) ==
  IF sc.pc = "initial_delay"
  THEN [sc EXCEPT !.viewportHeight = p.innerHeight,
                  !.totalHeight = p.scrollHeight,
                  !.noNewContentCount = 0]
  ELSE sc

\* content.js:564-574: the stagnation bookkeeping of one iteration.
Stagnation(sc, p) ==
  IF atBottom(p)
  THEN IF p.scrollHeight = sc.totalHeight
       THEN [sc EXCEPT !.noNewContentCount = @ + 1]
       ELSE [sc EXCEPT !.totalHeight = p.scrollHeight, !.noNewContentCount = 0]
  ELSE sc

\* Breaks with > in place of >= at content.js:567.
BreaksOffByOne(sc, p) ==
  /\ atBottom(p)
  /\ p.scrollHeight = sc.totalHeight
  /\ sc.noNewContentCount + 1 > MAX_NO_CONTENT_ATTEMPTS

\* Breaks with a cap on the iterations of one scan.
BreaksCapped(sc, p) ==
  \/ sc.iters >= 4
  \/ /\ atBottom(p)
     /\ p.scrollHeight = sc.totalHeight
     /\ sc.noNewContentCount + 1 >= MAX_NO_CONTENT_ATTEMPTS

\* content.js:564-568: whether the loop breaks in this iteration.
Breaks(sc, p) ==
  /\ atBottom(p)
  /\ p.scrollHeight = sc.totalHeight
  /\ sc.noNewContentCount + 1 >= MAX_NO_CONTENT_ATTEMPTS

\* Harvest with the retry count starting afresh after a harvest that worked.
HarvestResetsRetries(sc, dom) ==
  LET newImages == extractImagesFromDOM(dom)
      cs == MergeImages([capturedImages |-> sc.capturedImages,
                         scannedUrlSet  |-> sc.scannedUrlSet], newImages)
  IN  [sc EXCEPT !.capturedImages = cs.capturedImages,
                 !.scannedUrlSet = cs.scannedUrlSet,
                 !.harvested = @ \o newImages,
                 !.iters = @ + 1,
                 !.retryCount = 0]

\* content.js:546-555: harvest and merge.
Harvest(sc, dom) ==
  LET newImages == extractImagesFromDOM(dom)
      cs == MergeImages([capturedImages |-> sc.capturedImages,
                         scannedUrlSet  |-> sc.scannedUrlSet], newImages)
  IN  [sc EXCEPT !.capturedImages = cs.capturedImages,
                 !.scannedUrlSet = cs.scannedUrlSet,
                 !.harvested = @ \o newImages,
                 !.iters = @ + 1]

\* NoScreens that lets an empty result through.
NoScreensNever(sc) == FALSE

\* content.js:601
NoScreens(sc) == Len(sc.capturedImages) = 0

\* saveToStorage(capturedImages, initialMeta) up to its first await
\* (content.js:606, 641-659).  orderedImages, newAppData.screens and
\* capturedImages are one array from here on, and the loop's variables are
\* dead: the record keeps the array in newAppData only.
Saving(sc, href, t) ==
  [NewScan(sc.initialMeta) EXCEPT
     !.pc = "storage_get",
     !.newAppData = NewAppData(sc.capturedImages, sc.initialMeta, href, t),
     !.harvested = sc.harvested,
     !.iters = sc.iters,
     !.stableIters = sc.stableIters,
     !.bottomIters = sc.bottomIters,
     !.bottomStreak = sc.bottomStreak,
     !.viewportHeight = sc.viewportHeight,
     !.savedAt = t,
     !.abortedAt = sc.abortedAt,
     !.abortedIn = sc.abortedIn,
     !.clearedFlag = sc.clearedFlag,
     !.converged = sc.converged,
     !.kept = sc.kept,
     !.lost = sc.lost]

(***************************************************************************)
(* The message listener (content.js:366-426).                              *)
(***************************************************************************)
\* NameMissing that lets a scan without a name go on.
NameMissingNever(meta) == FALSE

\* content.js:526
NameMissing(meta) == meta.name = <<>>

\* start_scrape leaving the cancellation flag as it finds it.
start_scrapeKeepsFlag(maxScans) ==
  /\ lastStart' = [active |-> Cardinality(ActiveLoops), accepted |-> ~isScraping]
  /\ IF isScraping
     THEN UNCHANGED <<isScraping, scrapingAborted, scans, page, started>>
     ELSE /\ started < maxScans
          /\ started' = started + 1
          /\ scrapingAborted' = scrapingAborted
          /\ LET initialMeta == getPageMeta(page)
             IN  IF MetaThrows(page)
                 THEN /\ scans' = Put(scans,
                           Settled(NewScan(NoMeta), Failed("URI malformed")))
                      /\ isScraping' = FALSE
                      /\ page' = page
                 ELSE IF NameMissing(initialMeta)
                 THEN /\ scans' = Put(scans,
                           Settled(NewScan(NoMeta), Failed("Could not detect app name")))
                      /\ isScraping' = FALSE
                      /\ page' = page
                 ELSE /\ scans' = Put(scans, [NewScan(initialMeta) EXCEPT
                                                !.clearedFlag = scrapingAborted])
                      /\ isScraping' = TRUE
                      /\ page' = scrollTo(page, 0)
  /\ UNCHANGED <<worker, storage, now, appsData, currentApp, lastSave>>

\* start_scrape (content.js:389-415), with performSmartScrape up to its first
\* await (521-536).
start_scrape(maxScans) ==
  /\ lastStart' = [active |-> Cardinality(ActiveLoops), accepted |-> ~isScraping]
  /\ IF isScraping
     THEN UNCHANGED <<isScraping, scrapingAborted, scans, page, started>>
     ELSE /\ started < maxScans
          /\ started' = started + 1
          /\ scrapingAborted' = FALSE
          /\ LET initialMeta == getPageMeta(page)
             IN  IF MetaThrows(page)
                 THEN /\ scans' = Put(scans,
                           Settled(NewScan(NoMeta), Failed("URI malformed")))
                      /\ isScraping' = FALSE
                      /\ page' = page
                 ELSE IF NameMissing(initialMeta)
                 THEN /\ scans' = Put(scans,
                           Settled(NewScan(NoMeta), Failed("Could not detect app name")))
                      /\ isScraping' = FALSE
                      /\ page' = page
                 ELSE /\ scans' = Put(scans, [NewScan(initialMeta) EXCEPT
                                                !.clearedFlag = scrapingAborted])
                      /\ isScraping' = TRUE
                      /\ page' = scrollTo(page, 0)
  /\ UNCHANGED <<worker, storage, now, appsData, currentApp, lastSave>>

\* A start_scrape message from any sender.
StartScrape(maxScans) ==
  /\ start_scrape(maxScans)
  /\ UNCHANGED trigger

\* get_meta (content.js:376-386), answered to the popup.
get_meta ==
  /\ trigger' = [trigger EXCEPT !.meta =
                   IF MetaThrows(page)
                   THEN [answered |-> TRUE, error |-> "URI malformed", meta |-> NoMeta]
                   ELSE [answered |-> TRUE, error |-> "", meta |-> getPageMeta(page)]]
  /\ UNCHANGED <<worker, isScraping, scrapingAborted, scans, page, storage, now,
                 appsData, currentApp, started, lastStart, lastSave>>

\* abort_scrape (content.js:418-423)
AbortScrape ==
  /\ scrapingAborted' = TRUE
  /\ isScraping' = FALSE
  /\ scans' = [s \in ScanIds |->
                 LET sc == IF scans[s].pc # "done" /\ scans[s].abortedIn = "none"
                           THEN [scans[s] EXCEPT !.abortedIn = scans[s].pc]
                           ELSE scans[s]
                 IN  IF sc.pc \in InLoop /\ sc.abortedAt = 0
                     THEN [sc EXCEPT !.abortedAt = Len(sc.capturedImages)]
                     ELSE sc]
  /\ UNCHANGED <<trigger, worker, page, storage, now, appsData, currentApp, started, lastStart, lastSave>>

(***************************************************************************)
(* performSmartScrape (content.js:521-615), one action per resumption.     *)
(***************************************************************************)
\* The loop condition of content.js:544 fails; 593-595.
LoopAborted(s) ==
  /\ scans[s].pc \in LoopWaits
  /\ scrapingAborted
  /\ scans' = [scans EXCEPT ![s] = Settled(@, Aborted)]
  /\ isScraping' = FALSE
  /\ UNCHANGED <<trigger, worker, scrapingAborted, page, storage, now, appsData, currentApp,
                 started, lastStart, lastSave>>

\* HarvestThrows with a retry that starts the captured sequence afresh.
HarvestThrowsResets(s) ==
  /\ scans[s].pc \in LoopWaits
  /\ ~scrapingAborted
  /\ LET sc == Entered(scans[s], page)
         retryCount == sc.retryCount + 1
     IN  IF retryCount >= MAX_RETRY_ATTEMPTS
         THEN /\ scans' = [scans EXCEPT ![s] =
                             Settled(sc, Failed("Scraping failed after retries"))]
              /\ isScraping' = FALSE
         ELSE /\ scans' = [scans EXCEPT ![s] =
                             [sc EXCEPT !.pc = "retry_delay", !.retryCount = retryCount,
                                        !.capturedImages = <<>>,
                                        !.scannedUrlSet = {}]]
              /\ UNCHANGED isScraping
  /\ UNCHANGED <<trigger, worker, scrapingAborted, page, storage, now, appsData, currentApp,
                 started, lastStart, lastSave>>

\* extractImagesFromDOM throws; content.js:581-590.
HarvestThrows(s) ==
  /\ scans[s].pc \in LoopWaits
  /\ ~scrapingAborted
  /\ LET sc == Entered(scans[s], page)
         retryCount == sc.retryCount + 1
     IN  IF retryCount >= MAX_RETRY_ATTEMPTS
         THEN /\ scans' = [scans EXCEPT ![s] =
                             Settled(sc, Failed("Scraping failed after retries"))]
              /\ isScraping' = FALSE
         ELSE /\ scans' = [scans EXCEPT ![s] =
                             [sc EXCEPT !.pc = "retry_delay", !.retryCount = retryCount]]
              /\ UNCHANGED isScraping
  /\ UNCHANGED <<trigger, worker, scrapingAborted, page, storage, now, appsData, currentApp,
                 started, lastStart, lastSave>>

\* sendProgressUpdate letting the failure of chrome.runtime.sendMessage out.
sendProgressUpdateUncaught(open) == ~open

\* sendProgressUpdate (content.js:700-709): whether it throws into the loop
\* when the popup is open or not; its try/catch swallows the failure.
sendProgressUpdateThrows(open) == FALSE

\* One iteration whose harvest succeeds (content.js:544-579) and, when the
\* loop breaks, the code after it up to saveToStorage's first await (593-659).
LoopIteration(s, dom, maxIter) ==
  /\ scans[s].pc \in LoopWaits
  /\ ~scrapingAborted
  /\ scans[s].iters < maxIter
  /\ LET sc0 == [Harvest(Entered(scans[s], page), dom) EXCEPT
                   !.lost = IF trigger.open THEN @ ELSE @ + 1]
         sc1 == [Stagnation(sc0, page) EXCEPT
                   !.stableIters = @ + 1,
                   !.bottomIters = IF atBottom(page) THEN @ + 1 ELSE @,
                   !.bottomStreak =
                      IF atBottom(page) /\ page.scrollHeight = sc0.totalHeight
                      THEN @ + 1 ELSE 0]
     IN  IF sendProgressUpdateThrows(trigger.open)
         THEN /\ page' = page
              /\ IF sc0.retryCount + 1 >= MAX_RETRY_ATTEMPTS
                 THEN /\ scans' = [scans EXCEPT ![s] =
                             Settled(sc0, Failed("Scraping failed after retries"))]
                      /\ isScraping' = FALSE
                 ELSE /\ scans' = [scans EXCEPT ![s] =
                             [sc0 EXCEPT !.pc = "retry_delay", !.retryCount = @ + 1]]
                      /\ UNCHANGED isScraping
         ELSE IF ~Breaks(sc0, page)
         THEN /\ scans' = [scans EXCEPT ![s] = [sc1 EXCEPT !.pc = "scroll_delay"]]
              /\ page' = scrollBy(page, sc1.viewportHeight)
              /\ UNCHANGED isScraping
         ELSE /\ page' = scrollTo(page, 0)
              /\ LET sc2 == [sc1 EXCEPT !.converged = TRUE,
                                        !.kept = Len(sc1.capturedImages)]
                 IN  IF NoScreens(sc2)
                     THEN /\ scans' = [scans EXCEPT ![s] =
                                 Settled(sc2, Failed("No screens found"))]
                          /\ isScraping' = FALSE
                     ELSE /\ scans' = [scans EXCEPT ![s] = Saving(sc2, page.href, now)]
                          /\ UNCHANGED isScraping
  /\ UNCHANGED <<trigger, worker, scrapingAborted, storage, now, appsData, currentApp,
                 started, lastStart, lastSave>>

\* chrome.storage.local.get resolves; content.js:659-677 up to the set call.
StorageGet(s) ==
  /\ scans[s].pc = "storage_get"
  /\ LET sc == scans[s]
         existingIndex == findIndex(storage, sc.initialMeta.name, sc.newAppData.id)
     IN  scans' = [scans EXCEPT ![s] =
           [sc EXCEPT !.pc = "storage_set",
                      !.harvested = <<>>,
                      !.iters = 0,
                      !.stableIters = 0,
                      !.bottomIters = 0,
                      !.bottomStreak = 0,
                      !.viewportHeight = 0,
                      !.lost = 0,
                      !.readApps = storage,
                      !.existingIndex = existingIndex,
                      !.apps = Upsert(storage, sc.newAppData, existingIndex)]]
  /\ UNCHANGED <<trigger, worker, isScraping, scrapingAborted, page, storage, now, appsData,
                 currentApp, started, lastStart, lastSave>>

\* StorageSet with a .then that leaves the in-progress flag as it is.
StorageSetKeepsFlag(s) ==
  /\ scans[s].pc = "storage_set"
  /\ storage' = scans[s].apps
  /\ LET sc == scans[s]
     IN  /\ scans' = [scans EXCEPT ![s] =
               Settled([sc EXCEPT !.wrote = TRUE],
                       Success(Len(sc.newAppData.screens), sc.initialMeta.name,
                               sc.existingIndex > 0))]
         /\ lastSave' =
               LET index == IF sc.existingIndex > 0 THEN sc.existingIndex ELSE 1
               IN  [app      |-> sc.apps[index],
                    index    |-> index,
                    replaced |-> IF sc.existingIndex > 0
                                 THEN sc.readApps[sc.existingIndex] ELSE NoApp,
                    repeat   |-> /\ lastSave.index > 0
                                 /\ SameScan(lastSave.app, sc.newAppData)]
  /\ UNCHANGED <<trigger, worker, isScraping, scrapingAborted, page, now, appsData, currentApp, started, lastStart>>

\* chrome.storage.local.set resolves; content.js:677-684 and 400-403.
StorageSet(s) ==
  /\ scans[s].pc = "storage_set"
  /\ storage' = scans[s].apps
  /\ LET sc == scans[s]
     IN  /\ scans' = [scans EXCEPT ![s] =
               Settled([sc EXCEPT !.wrote = TRUE],
                       Success(Len(sc.newAppData.screens), sc.initialMeta.name,
                               sc.existingIndex > 0))]
         /\ lastSave' =
               LET index == IF sc.existingIndex > 0 THEN sc.existingIndex ELSE 1
               IN  [app      |-> sc.apps[index],
                    index    |-> index,
                    replaced |-> IF sc.existingIndex > 0
                                 THEN sc.readApps[sc.existingIndex] ELSE NoApp,
                    repeat   |-> /\ lastSave.index > 0
                                 /\ SameScan(lastSave.app, sc.newAppData)]
  /\ isScraping' = FALSE
  /\ UNCHANGED <<trigger, worker, scrapingAborted, page, now, appsData, currentApp, started, lastStart>>

\* SaveError that reports every failure with the generic message.
SaveErrorGeneric(error) == "Failed to save"

\* content.js:689-693: the message of the error saveToStorage rethrows; the
\* generic one is followed by the text of the original error.
SaveError(error) ==
  IF error.message # <<>> /\ Includes(error.message, "QUOTA_BYTES")
  THEN "Storage quota exceeded. Try clearing some apps first."
  ELSE "Failed to save"

\* StorageFails with a write that took effect before it was reported failed.
StorageFailsAfterWrite(s, error) ==
  /\ scans[s].pc \in {"storage_get", "storage_set"}
  /\ error.kind = "quota" => scans[s].pc = "storage_set"
  /\ scans' = [scans EXCEPT ![s] =
        Settled([@ EXCEPT !.failure = error.kind], Failed(SaveError(error)))]
  /\ storage' = IF scans[s].pc = "storage_set" THEN scans[s].apps ELSE storage
  /\ isScraping' = FALSE
  /\ UNCHANGED <<trigger, worker, scrapingAborted, page, now, appsData, currentApp,
                 started, lastStart, lastSave>>

\* The get or the set rejects with error; content.js:686-694 and 608-614.
\* Only a write can exceed the quota.
StorageFails(s, error) ==
  /\ scans[s].pc \in {"storage_get", "storage_set"}
  /\ error.kind = "quota" => scans[s].pc = "storage_set"
  /\ scans' = [scans EXCEPT ![s] =
        Settled([@ EXCEPT !.failure = error.kind], Failed(SaveError(error)))]
  /\ isScraping' = FALSE
  /\ UNCHANGED <<trigger, worker, scrapingAborted, page, storage, now, appsData, currentApp,
                 started, lastStart, lastSave>>

(***************************************************************************)
(* The popup (popup.js v3 FIXED, src/background.js lines 157-535): the     *)
(* scan button and handleScan, one action per resumption.                  *)
(***************************************************************************)
\* The place Put gives the next invocation.
PlaceOf(ss) ==
  IF \E s \in 1..Len(ss) : ss[s].pc = "done"
  THEN CHOOSE s \in 1..Len(ss) :
          /\ ss[s].pc = "done"
          /\ \A r \in 1..(s - 1) : ss[r].pc # "done"
  ELSE Len(ss) + 1

\* updateStatus (background.js:523-526)
updateStatus(t, text, type) == [t EXCEPT !.text = text, !.type = type]

\* setScanning (background.js:478-486)
setScanning(t, isScanning) == [t EXCEPT !.disabled = isScanning]

\* A click on the scan button: handleScan up to its first await
\* (background.js:394-403).
handleScan(maxScans) ==
  /\ ~trigger.disabled
  /\ started < maxScans
  /\ trigger' = [updateStatus(setScanning(trigger, TRUE), "Initializing scan...", "info")
                   EXCEPT !.pc = "ping", !.request = "none", !.scan = 0]
  /\ UNCHANGED <<worker, isScraping, scrapingAborted, scans, page, storage, now,
                 appsData, currentApp, started, lastStart, lastSave>>

\* The catch of handleScan (background.js:446-451).
ScanFailed(t, text) ==
  [updateStatus(setScanning(t, FALSE), text, "error")
     EXCEPT !.pc = "idle", !.request = "none"]

\* The ping is answered (background.js:309-323, 403-418): without a content
\* script handleScan throws; with one it arms its timers and sends
\* start_scrape, which the Page Agent's listener handles.
ScanPinged(isAvailable, maxScans) ==
  /\ trigger.pc = "ping"
  /\ IF ~isAvailable
     THEN /\ trigger' = ScanFailed(trigger, "Lost connection to page. Try refreshing.")
          /\ UNCHANGED <<worker, isScraping, scrapingAborted, scans, page, storage, now,
                         appsData, currentApp, started, lastStart, lastSave>>
     ELSE /\ start_scrape(maxScans)
          /\ trigger' = [trigger EXCEPT
                           !.pc = "race",
                           !.request = IF isScraping THEN "rejected" ELSE "accepted",
                           !.scan = IF isScraping THEN 0 ELSE PlaceOf(scans)]

\* The 30 s timer of background.js:409-411 fires.
ScanSlow ==
  /\ trigger.pc = "race"
  /\ trigger' = updateStatus(trigger, "Scan taking longer than expected...", "warning")
  /\ UNCHANGED <<worker, isScraping, scrapingAborted, scans, page, storage, now,
                 appsData, currentApp, started, lastStart, lastSave>>

\* The response of the Page Agent reaches sendScrapeMessage's callback and
\* wins the race (background.js:414-443, 457-473).
ScanResponds ==
  /\ trigger.pc = "race"
  /\ \/ trigger.request = "rejected"
     \/ trigger.request = "accepted" /\ scans[trigger.scan].pc = "done"
  /\ LET response == IF trigger.request = "rejected"
                      THEN Failed("Scrape already in progress")
                      ELSE scans[trigger.scan].result
     IN  trigger' =
           IF response.status = "success"
           THEN [updateStatus(trigger, "screens saved", "success")
                   EXCEPT !.pc = "complete", !.request = "none"]
           ELSE IF response.status = "aborted"
           THEN [updateStatus(setScanning(trigger, FALSE), "Scan cancelled", "warning")
                   EXCEPT !.pc = "idle", !.request = "none"]
           ELSE ScanFailed(trigger, response.message)
  /\ UNCHANGED <<worker, isScraping, scrapingAborted, scans, page, storage, now,
                 appsData, currentApp, started, lastStart, lastSave>>

\* ScanTimesOut with a timer that never fires.
ScanNeverTimesOut ==
  /\ FALSE
  /\ UNCHANGED vars

\* ScanTimesOut sending abort_scrape to the Page Agent.
ScanTimesOutAborting ==
  /\ trigger.pc = "race"
  /\ trigger' = ScanFailed(trigger, "Scan timeout - page may be too large")
  /\ scrapingAborted' = TRUE
  /\ isScraping' = FALSE
  /\ UNCHANGED <<worker, scans, page, storage, now,
                 appsData, currentApp, started, lastStart, lastSave>>

\* The SCAN_TIMEOUT timer wins the race (background.js:416-418, 446-451).
ScanTimesOut ==
  /\ trigger.pc = "race"
  /\ trigger' = [ScanFailed(trigger, "Scan timeout - page may be too large")
                   EXCEPT !.timedOutIn = IF trigger.request = "accepted"
                                         THEN scans[trigger.scan].pc
                                         ELSE "rejected"]
  /\ UNCHANGED <<worker, isScraping, scrapingAborted, scans, page, storage, now,
                 appsData, currentApp, started, lastStart, lastSave>>

\* The SUCCESS_DISPLAY_TIME timer fires (background.js:433-436).
SuccessDisplayEnds ==
  /\ trigger.pc = "complete"
  /\ trigger' = [setScanning(trigger, FALSE) EXCEPT !.pc = "idle"]
  /\ UNCHANGED <<worker, isScraping, scrapingAborted, scans, page, storage, now,
                 appsData, currentApp, started, lastStart, lastSave>>

\* The user closes the popup, and opens it again on the same tab
\* (background.js:185-188); only an idle popup is followed here.
PopupCloses ==
  /\ trigger.open
  /\ trigger.pc = "idle"
  /\ trigger' = [trigger EXCEPT !.open = FALSE]
  /\ UNCHANGED <<worker, isScraping, scrapingAborted, scans, page, storage, now,
                 appsData, currentApp, started, lastStart, lastSave>>

PopupOpens ==
  /\ ~trigger.open
  /\ trigger' = NoTrigger
  /\ UNCHANGED <<worker, isScraping, scrapingAborted, scans, page, storage, now,
                 appsData, currentApp, started, lastStart, lastSave>>

\* An update_progress message of a running loop (content.js:558, 700-709)
\* reaches the popup's listener (background.js:376-380).
updateProgress ==
  /\ trigger.open
  /\ \E s \in ScanIds : scans[s].pc \in InLoop
  /\ trigger' = updateStatus(trigger, "Scanning...", "info")
  /\ UNCHANGED <<worker, isScraping, scrapingAborted, scans, page, storage, now,
                 appsData, currentApp, started, lastStart, lastSave>>

(***************************************************************************)
(* The dashboard (src/dashboard.js), as far as it touches the store.       *)
(***************************************************************************)
\* loadData (dashboard.js:45-62), run when the dashboard page loads.
loadData ==
  /\ appsData' = storage
  /\ currentApp' = NoApp
  /\ UNCHANGED <<trigger, worker, isScraping, scrapingAborted, scans, page, storage, now,
                 started, lastStart, lastSave>>

\* openDetail (dashboard.js:292-293), from a click on a rendered card.
openDetail(i) ==
  /\ i \in 1..Len(appsData)
  /\ currentApp = NoApp
  /\ currentApp' = appsData[i]
  /\ UNCHANGED <<trigger, worker, isScraping, scrapingAborted, scans, page, storage, now,
                 appsData, started, lastStart, lastSave>>

\* dashboard.js:412
WithoutApp(apps, id) == SelectSeq(apps, LAMBDA app : app.id # id)

\* handleDeleteApp (dashboard.js:401-428), confirmed; showLibrary (285) clears
\* currentApp.
handleDeleteApp ==
  /\ currentApp # NoApp
  /\ appsData' = WithoutApp(appsData, currentApp.id)
  /\ storage' = appsData'
  /\ currentApp' = NoApp
  /\ lastSave' = NoSave
  /\ UNCHANGED <<trigger, worker, isScraping, scrapingAborted, scans, page, now, started, lastStart>>

\* handleClearAll (dashboard.js:378-396), confirmed.
handleClearAll ==
  /\ storage' = <<>>
  /\ appsData' = <<>>
  /\ lastSave' = NoSave
  /\ UNCHANGED <<trigger, worker, isScraping, scrapingAborted, scans, page, now, currentApp,
                 started, lastStart>>

(***************************************************************************)
(* The environment: the clock, the page's content and geometry.            *)
(***************************************************************************)
Tick ==
  /\ now < MaxTime
  /\ now' = now + 1
  /\ UNCHANGED <<trigger, worker, isScraping, scrapingAborted, scans, page, storage,
                 appsData, currentApp, started, lastStart, lastSave>>

\* Lazy loading (or a layout change) sets document.body.scrollHeight to h; the
\* browser keeps scrollY within the new range.
HeightChanges(h) ==
  /\ h # page.scrollHeight
  /\ page' = scrollTo([page EXCEPT !.scrollHeight = h], page.scrollY)
  /\ scans' = [s \in ScanIds |->
                 IF scans[s].pc \in LoopWaits
                 THEN [scans[s] EXCEPT !.stableIters = 0, !.bottomIters = 0]
                 ELSE scans[s]]
  /\ UNCHANGED <<trigger, worker, isScraping, scrapingAborted, storage, now, appsData,
                 currentApp, started, lastStart, lastSave>>

\* Client-side navigation or a re-render: heading and location become those
\* of q; the content script and the window stay.
Navigates(q) ==
  /\ <<page.h1, page.href>> # <<q.h1, q.href>>
  /\ page' = [page EXCEPT !.hasH1 = q.hasH1, !.h1 = q.h1, !.title = q.title,
                          !.href = q.href]
  /\ UNCHANGED <<trigger, worker, isScraping, scrapingAborted, scans, storage, now, appsData,
                 currentApp, started, lastStart, lastSave>>

(***************************************************************************)
(* The values the specifications draw the environment from.                *)
(***************************************************************************)
AppUrl(seg) == <<"https:", "//", "mobbin.com", "/", "apps", "/", seg>>
Cdn(file) == <<"https:", "//", "cdn.mobbin.com", "/", file>>

Img(src) == [src |-> src, inLi |-> FALSE]

Img1 == Img(Cdn("a.png"))
Img1v == Img(Cdn("a.png") \o <<"?", "v=1">>)
Img2 == Img(Cdn("b.png"))
ImgBlob == Img(<<"blob:https:", "//", "mobbin.com", "/", "x">>)
ImgData == Img(<<"data:", "image/png">>)
ImgLi == [src |-> Cdn("c.png"), inLi |-> TRUE]

Imgs == {Img1, Img1v, Img2, ImgBlob, ImgData, ImgLi}

\* The first screen's file under a fragment and under a query and a fragment.
Img1f == Img(Cdn("a.png") \o <<"#", "top">>)
Img1vf == Img(Cdn("a.png") \o <<"?", "v=1", "#", "top">>)

UrlImgs == {Img1, Img1v, Img1f, Img1vf}

RECURSIVE SeqsUpTo(_, _)
SeqsUpTo(S, n) ==
  IF n = 0 THEN {<<>>}
  ELSE LET shorter == SeqsUpTo(S, n - 1)
       IN  shorter \cup {Append(q, x) : q \in shorter, x \in S}

PageOf(h1, href, inner, height) ==
  [hasH1 |-> TRUE, h1 |-> h1, title |-> <<"Mobbin">>, href |-> href,
   scrollY |-> 0, scrollHeight |-> height, innerHeight |-> inner,
   logoImgs |-> <<>>, logoBox |-> <<>>, nearH1 |-> <<>>]

FooPage == PageOf(<<"Foo", " ", EmDash, " ", "iOS">>, AppUrl("foo"), 600, 600)

\* Two apps, and the first app's name at the second app's location.
StorePages ==
  {PageOf(<<"Foo">>, AppUrl("foo"), 600, 600),
   PageOf(<<"Bar">>, AppUrl("bar"), 600, 600),
   PageOf(<<"Foo">>, AppUrl("bar"), 600, 600)}

\* App pages by location: a plain path, a trailing slash, a query, and the
\* site's root.
UrlPages ==
  {PageOf(<<"Bar">>, AppUrl("foo"), 600, 600),
   PageOf(<<"Bar">>, AppUrl("foo") \o <<"/">>, 600, 600),
   PageOf(<<"Bar">>, AppUrl("foo") \o <<"?", "tab=flows">>, 600, 600),
   PageOf(<<"Foo", " ", "Bar">>, <<"https:", "//", "mobbin.com", "/">>, 600, 600)}

\* Logo images: in the navigation bar, the app's logo with a sizing query, a
\* thumbnail, one that is not rendered, and an inlined one.
LogoNav == [src |-> Cdn("nav.png"), region |-> "nav", w |-> 40, h |-> 40]
LogoMain == [src |-> Cdn("logo.png") \o <<"?", "w=120">>, region |-> "main",
             w |-> 120, h |-> 120]
LogoThumb == [src |-> Cdn("thumb.png"), region |-> "main", w |-> 60, h |-> 60]
LogoHidden == [src |-> Cdn("hidden.png"), region |-> "main", w |-> 0, h |-> 0]
LogoInline == [src |-> <<"data:", "image/png">>, region |-> "main", w |-> 150, h |-> 150]

LogoImgs == {LogoNav, LogoMain, LogoThumb, LogoHidden, LogoInline}

\* Pages by their logo elements and the first character of their name.
LogoPages ==
  {[PageOf(h1, AppUrl("foo"), 600, 600) EXCEPT !.logoImgs = imgs, !.logoBox = box] :
     h1 \in {<<"Foo">>, <<Astral, " ", "Tunes">>},
     imgs \in SeqsUpTo(LogoImgs, MaxLogos),
     box \in {<<>>, <<LogoThumb>>}}

\* A page with a name, a page whose heading has no text before the dash and
\* that the user has scrolled down, and a page without a logo whose name starts
\* with a character outside the Basic Multilingual Plane.
FaultPages ==
  {FooPage,
   [PageOf(<<" ", EmDash, " ", "iOS">>, AppUrl("foo"), 600, 900) EXCEPT !.scrollY = 200],
   PageOf(<<Astral, " ", "Tunes">>, AppUrl("tunes"), 600, 600)}

Heights == {100 * k : k \in 1..MaxPageUnits}

\* The errors chrome.storage.local rejects with: the quota violation of a
\* write ("QUOTA_BYTES quota exceeded"), another runtime error, and an error
\* without a message.
StorageErrors ==
  {[kind |-> "quota", message |-> <<"QUOTA_BYTES", " ", "quota exceeded">>],
   [kind |-> "other", message |-> <<"Extension context invalidated.">>],
   [kind |-> "other", message |-> <<>>]}

(***************************************************************************)
(* The service worker's check_storage query.                               *)
(***************************************************************************)
\* The quota and the megabyte as checkStorageSize writes them.
QuotaBytes == 5 * 1024 * 1024

MegaByte == 1024 * 1024

\* Number.prototype.toFixed of the quotient num / den, as the count of units
\* of the last digit kept: the nearest one, the larger one on a tie (den even).
toFixed(num, den) == (num + den \div 2) \div den

\* Byte counts whose exact percentage is a tie x.x5 while the double
\* (bytesInUse / (5 * 1024 * 1024)) * 100 falls just under it (28.749999999999996,
\* 51.24999999999999, 63.74999999999999): toFixed(1) takes the lower tenth.
TieBelow == {23 * 64 * 1024, 41 * 64 * 1024, 51 * 64 * 1024}

\* (bytesInUse / (1024 * 1024)).toFixed(2), in hundredths of a megabyte (the
\* fraction bytes * 100 / MegaByte reduced by 4; a division by a power of two
\* is exact in doubles).
mbInUse(bytesInUse) == toFixed(bytesInUse * 25, MegaByte \div 4)

\* ((bytesInUse / (5 * 1024 * 1024)) * 100).toFixed(1), in tenths of a percent
\* (the fraction bytes * 1000 / QuotaBytes reduced by 8).
percentUsed(bytesInUse) ==
  toFixed(bytesInUse * 125, QuotaBytes \div 8)
    - (IF bytesInUse \in TieBelow THEN 1 ELSE 0)

\* checkStorageSize: the answer for the byte count read, or the message of
\* the error getBytesInUse threw (failed).  percentUsed > 80 compares the
\* string of toFixed(1), converted back to a number, with 80.
checkStorageSize(bytesInUse, failed, error) ==
  IF failed
  THEN [NoUsage EXCEPT !.failed = TRUE, !.error = error]
  ELSE [NoUsage EXCEPT !.bytesInUse = bytesInUse,
                       !.mbInUse = mbInUse(bytesInUse),
                       !.percentUsed = percentUsed(bytesInUse),
                       !.nearLimit = percentUsed(bytesInUse) > 800]

\* The listener's check_storage branch: checkStorageSize() answers the sender.
check_storage(failed) ==
  /\ \E error \in {e.message : e \in StorageErrors} :
        worker' = [worker EXCEPT
                     !.asked = TRUE,
                     !.result = checkStorageSize(worker.bytesInUse, failed,
                                                 IF failed THEN error ELSE <<>>)]
  /\ UNCHANGED <<trigger, isScraping, scrapingAborted, scans, page, storage, now,
                 appsData, currentApp, started, lastStart, lastSave>>

\* Byte counts the store can hold: every 64 KB up to the quota, and counts
\* around 80% of the quota, a byte and some kilobytes on either side.
ByteCounts ==
  {k * 64 * 1024 : k \in 0..80}
    \cup {(QuotaBytes \div 10) * 8 + d * 1024 : d \in -MaxWindow..MaxWindow}
    \cup {(QuotaBytes \div 10) * 8 - 1, (QuotaBytes \div 10) * 8 + 1}

\* Saves, deletes and clears change what the store holds.
BytesInUseChanges ==
  /\ \E b \in ByteCounts : b # worker.bytesInUse
                            /\ worker' = [worker EXCEPT !.bytesInUse = b]
  /\ UNCHANGED <<trigger, isScraping, scrapingAborted, scans, page, storage, now,
                 appsData, currentApp, started, lastStart, lastSave>>

(***************************************************************************)
(* Specifications.                                                         *)
(***************************************************************************)
InitWith(pages) ==
  /\ isScraping = FALSE
  /\ scrapingAborted = FALSE
  /\ scans = <<>>
  /\ page \in pages
  /\ storage = <<>>
  /\ now = 1
  /\ started = 0
  /\ appsData = <<>>
  /\ currentApp = NoApp
  /\ lastStart = [active |-> 0, accepted |-> FALSE]
  /\ lastSave = NoSave
  /\ trigger = NoTrigger
  /\ worker = NoWorker

\* The Page Agent of one page context under start_scrape and abort_scrape
\* messages in any order, on a page that fits the viewport.
Init == InitWith({FooPage})

Next ==
  \/ StartScrape(MaxScans)
  \/ AbortScrape
  \/ \E s \in ScanIds : LoopAborted(s)
  \/ \E s \in ScanIds : HarvestThrows(s)
  \/ \E s \in ScanIds, dom \in {<<>>, <<Img1>>} : LoopIteration(s, dom, MaxIter)
  \/ \E s \in ScanIds : StorageGet(s)
  \/ \E s \in ScanIds : StorageSet(s)
  \/ \E s \in ScanIds, error \in StorageErrors : StorageFails(s, error)

Spec == Init /\ [][Next]_vars

\* One scan, never cancelled, over arbitrary DOM snapshots.
InitHarvest == InitWith({PageOf(<<"Foo">>, AppUrl("foo"), 300, 700)})

NextHarvest ==
  \/ StartScrape(1)
  \/ \E s \in ScanIds : HarvestThrows(s)
  \/ \E s \in ScanIds, dom \in SeqsUpTo(Imgs, MaxBatch) : LoopIteration(s, dom, MaxIter)
  \/ \E s \in ScanIds : StorageGet(s)
  \/ \E s \in ScanIds : StorageSet(s)

SpecHarvest == InitHarvest /\ [][NextHarvest]_vars

\* One scan, never cancelled, on pages of any height whose height changes at
\* any time.
InitScroll ==
  InitWith({PageOf(<<"Foo">>, AppUrl("foo"), inner, height) :
              inner \in {100, 200, 300}, height \in Heights})

NextScroll ==
  \/ StartScrape(1)
  \/ \E h \in Heights : HeightChanges(h)
  \/ \E s \in ScanIds : HarvestThrows(s)
  \/ \E s \in ScanIds : LoopIteration(s, <<Img1>>, MaxIter)
  \/ \E s \in ScanIds : StorageGet(s)
  \/ \E s \in ScanIds : StorageSet(s)

SpecScroll == InitScroll /\ [][NextScroll]_vars

\* Scans one after another (no abort_scrape) while the page navigates between
\* two apps and the clock runs; the dashboard clears the store.
InitStore == InitWith(StorePages)

NextStore ==
  \/ StartScrape(MaxSaves)
  \/ \E q \in StorePages : Navigates(q)
  \/ Tick
  \/ \E s \in ScanIds, dom \in {<<Img1>>, <<Img1, Img2>>} : LoopIteration(s, dom, MaxIter)
  \/ \E s \in ScanIds : StorageGet(s)
  \/ \E s \in ScanIds : StorageSet(s)
  \/ handleClearAll

SpecStore == InitStore /\ [][NextStore]_vars

\* Scans one after another and the dashboard: loading, opening a collection,
\* deleting it, clearing the store.
NextDash ==
  \/ StartScrape(MaxSaves)
  \/ \E q \in StorePages : Navigates(q)
  \/ \E s \in ScanIds : LoopIteration(s, <<Img1, Img1v, Img2>>, MaxIter)
  \/ \E s \in ScanIds : StorageGet(s)
  \/ \E s \in ScanIds : StorageSet(s)
  \/ loadData
  \/ \E i \in 1..Len(appsData) : openDetail(i)
  \/ handleDeleteApp
  \/ handleClearAll

SpecDash == InitStore /\ [][NextDash]_vars

\* The Page Agent under start_scrape and abort_scrape messages in any order,
\* with harvests that throw and storage calls that fail, on pages with and
\* without a detectable name.
InitFaults == InitWith(FaultPages)

NextFaults ==
  \/ StartScrape(MaxScans)
  \/ AbortScrape
  \/ \E s \in ScanIds : LoopAborted(s)
  \/ \E s \in ScanIds : HarvestThrows(s)
  \/ \E s \in ScanIds, dom \in {<<>>, <<Img1>>} : LoopIteration(s, dom, MaxIter)
  \/ \E s \in ScanIds : StorageGet(s)
  \/ \E s \in ScanIds : StorageSet(s)
  \/ \E s \in ScanIds, error \in StorageErrors : StorageFails(s, error)

SpecFaults == InitFaults /\ [][NextFaults]_vars

\* Scans one after another of pages at locations of several shapes, over DOM
\* snapshots whose image URLs carry queries and fragments.
InitUrls == InitWith(UrlPages)

NextUrls ==
  \/ StartScrape(MaxScans)
  \/ \E s \in ScanIds, dom \in SeqsUpTo(UrlImgs, MaxBatch) : LoopIteration(s, dom, MaxIter)
  \/ \E s \in ScanIds : StorageGet(s)
  \/ \E s \in ScanIds : StorageSet(s)

SpecUrls == InitUrls /\ [][NextUrls]_vars

\* The popup and the Page Agent of its tab: scans started from the scan
\* button, abort_scrape messages from any sender.  The popup's timers and the
\* answer to its ping arrive; nothing makes the Page Agent take a step.
NextTrigger ==
  \/ handleScan(MaxScans)
  \/ \E isAvailable \in BOOLEAN : ScanPinged(isAvailable, MaxScans)
  \/ ScanSlow
  \/ ScanResponds
  \/ ScanTimesOut
  \/ SuccessDisplayEnds
  \/ updateProgress
  \/ AbortScrape
  \/ \E s \in ScanIds : LoopAborted(s)
  \/ \E s \in ScanIds : HarvestThrows(s)
  \/ \E s \in ScanIds, dom \in {<<>>, <<Img1>>} : LoopIteration(s, dom, MaxIter)
  \/ \E s \in ScanIds : StorageGet(s)
  \/ \E s \in ScanIds : StorageSet(s)
  \/ \E s \in ScanIds, error \in StorageErrors : StorageFails(s, error)

SpecTrigger ==
  /\ Init
  /\ [][NextTrigger]_vars
  /\ WF_vars(\E isAvailable \in BOOLEAN : ScanPinged(isAvailable, MaxScans))
  /\ WF_vars(ScanTimesOut)
  /\ WF_vars(SuccessDisplayEnds)

\* The popup asks for the metadata of pages with any logo elements, and scans
\* them.
InitLogo == InitWith(LogoPages)

NextLogo ==
  \/ get_meta
  \/ StartScrape(MaxScans)
  \/ \E s \in ScanIds : LoopIteration(s, <<Img1>>, MaxIter)
  \/ \E s \in ScanIds : StorageGet(s)
  \/ \E s \in ScanIds : StorageSet(s)

SpecLogo == InitLogo /\ [][NextLogo]_vars

\* Scans of a page taller than the viewport while the popup is closed and
\* opened again: progress notifications with and without a receiver.
InitProgress == InitWith({PageOf(<<"Foo">>, AppUrl("foo"), 300, 700)})

NextProgress ==
  \/ StartScrape(MaxScans)
  \/ PopupCloses
  \/ PopupOpens
  \/ \E s \in ScanIds : HarvestThrows(s)
  \/ \E s \in ScanIds, dom \in {<<>>, <<Img1>>, <<Img1, Img2>>} :
        LoopIteration(s, dom, MaxIter)
  \/ \E s \in ScanIds : StorageGet(s)
  \/ \E s \in ScanIds : StorageSet(s)

SpecProgress == InitProgress /\ [][NextProgress]_vars

\* The service worker answers check_storage while the store's size changes.
InitQuota == InitWith({FooPage})

NextQuota ==
  \/ BytesInUseChanges
  \/ check_storage(FALSE)
  \/ check_storage(TRUE)

SpecQuota == InitQuota /\ [][NextQuota]_vars

(***************************************************************************)
(* Claims.                                                                 *)
(***************************************************************************)
\* C1: in one page context at most one scrape loop is active at any time, and
\* a start_scrape that arrives while a started loop has not finished is
\* answered with an error and starts no second loop.
C1_SingleActiveLoop ==
  /\ Cardinality(ActiveLoops) <= 1
  /\ lastStart.active > 0 => ~lastStart.accepted

\* C2: a scan that was suspended in a loop wait with K > 0 URLs captured when
\* abort_scrape arrived ends with the outcome "aborted" and never writes the
\* store, whatever messages arrive before it polls the flag.
C2_AbortDiscardsCaptured ==
  \A s \in ScanIds :
     scans[s].abortedAt > 0 =>
        /\ ~scans[s].wrote
        /\ scans[s].pc = "done" => scans[s].result.status = "aborted"

\* The sequence q with only the first occurrence of each element kept.
RECURSIVE FirstOccurrences(_)
FirstOccurrences(q) ==
  IF q = <<>> THEN <<>>
  ELSE LET front == SubSeq(q, 1, Len(q) - 1)
           x == q[Len(q)]
       IN  IF \E i \in 1..Len(front) : front[i] = x
           THEN FirstOccurrences(front)
           ELSE Append(FirstOccurrences(front), x)

Accepted(q) == SelectSeq(q, isValidImageUrl)

\* C3: for every sequence of harvested batches, the captured sequence, and the
\* screens sequence handed to the store, is the accepted URLs of the
\* concatenated batches with the first occurrence of each kept, in first-seen
\* order.
C3_FirstSeenOrder ==
  \A s \in ScanIds :
     /\ scans[s].pc \in InLoop =>
          scans[s].capturedImages = FirstOccurrences(Accepted(scans[s].harvested))
     /\ scans[s].pc = "storage_get" =>
          scans[s].newAppData.screens = FirstOccurrences(Accepted(scans[s].harvested))

\* A save is about to start whose batches repeated a URL inside one batch and
\* across batches and held a URL that is not accepted.
C3_Witness ==
  \E s \in ScanIds :
     /\ scans[s].pc = "storage_get"
     /\ scans[s].newAppData.screens = <<Cdn("b.png"), Cdn("a.png")>>
     /\ \E i \in 1..Len(scans[s].harvested) : ~isValidImageUrl(scans[s].harvested[i])
     /\ \E i \in 1..(Len(scans[s].harvested) - 1) :
           /\ scans[s].harvested[i] = Cdn("b.png")
           /\ scans[s].harvested[i + 1] = Cdn("b.png")
     /\ Len(SelectSeq(scans[s].harvested, LAMBDA u : u = Cdn("a.png"))) >= 2
     /\ scans[s].harvested[Len(scans[s].harvested)] = Cdn("b.png")

\* The iterations of scan s since the page height last changed that did not
\* observe the viewport at the bottom.
NotAtBottomIters(s) == scans[s].stableIters - scans[s].bottomIters

C5_UniqueNameAndId ==
  \A i, j \in 1..Len(storage) :
     i # j => /\ storage[i].name # storage[j].name
              /\ storage[i].id # storage[j].id

\* The step in which the save of scan s writes the store and reports success.
SaveWrites(s) ==
  /\ scans[s].pc = "storage_set"
  /\ scans'[s].pc = "done"
  /\ scans'[s].result.status = "success"

Matches(a, rec) == a.name = rec.name \/ a.id = rec.id

\* The first position of read holding an entry that matches rec, 0 if none.
FirstMatch(read, rec) ==
  IF \E i \in 1..Len(read) : Matches(read[i], rec)
  THEN CHOOSE i \in 1..Len(read) :
          /\ Matches(read[i], rec)
          /\ \A j \in 1..(i - 1) : ~Matches(read[j], rec)
  ELSE 0

\* C6: when the store a save read holds an entry with the new record's name or
\* with its id, the save overwrites an entry and the store it writes has as
\* many entries as the store it read; otherwise it has exactly one more.
C6_MatchByNameOrId ==
  [][\A s \in ScanIds :
       SaveWrites(s) =>
         LET read == scans[s].readApps
             rec == scans[s].newAppData
         IN  IF \E i \in 1..Len(read) : Matches(read[i], rec)
             THEN /\ Len(storage') = Len(read)
                  /\ \E i \in 1..Len(read) :
                        /\ Matches(read[i], rec)
                        /\ storage'[i].name = rec.name
                        /\ storage'[i].id = rec.id
                        /\ storage'[i].screens = rec.screens
             ELSE Len(storage') = Len(read) + 1]_vars

\* A save overwrote an entry that had its name and another id, the store
\* holding a second entry.
C6_Witness ==
  /\ lastSave.index > 0
  /\ lastSave.replaced # NoApp
  /\ lastSave.replaced.name = lastSave.app.name
  /\ lastSave.replaced.id # lastSave.app.id
  /\ Len(storage) = 2
  /\ storage[lastSave.index] = lastSave.app

\* C7: a save of the scan result the previous save wrote, the store untouched
\* in between, leaves the number and order of the entries as they were and the
\* page's entry with the same screens and screenCount; it reports isUpdate,
\* keeps dateAdded and sets dateUpdated to its own time.
C7_RescanIdempotent ==
  [][\A s \in ScanIds :
       (/\ SaveWrites(s)
        /\ lastSave.index > 0
        /\ scans[s].readApps = storage
        /\ SameScan(lastSave.app, scans[s].newAppData)) =>
         LET k == lastSave.index
         IN  /\ Len(storage') = Len(storage)
             /\ \A i \in 1..Len(storage) :
                   /\ storage'[i].id = storage[i].id
                   /\ storage'[i].name = storage[i].name
                   /\ i # k => storage'[i] = storage[i]
             /\ storage'[k].screens = storage[k].screens
             /\ storage'[k].screenCount = storage[k].screenCount
             /\ storage'[k].dateAdded = storage[k].dateAdded
             /\ storage'[k].dateUpdated = scans[s].savedAt
             /\ scans'[s].result.isUpdate]_vars

\* The same page was saved twice in succession, the second time later than
\* the first, with another entry in the store.
C7_Witness ==
  /\ lastSave.repeat
  /\ Len(storage) = 2
  /\ storage[lastSave.index] = lastSave.app
  /\ lastSave.app.dateAdded < lastSave.app.dateUpdated
  /\ lastSave.replaced.dateUpdated < lastSave.app.dateUpdated

\* C8: when a save matches an entry of the store it read, first at position i,
\* the store it writes is the store it read except at i, where the entry has
\* the replaced entry's dateAdded, the save time as dateUpdated and every
\* other field from the new scan.
C8_UpdateInPlace ==
  [][\A s \in ScanIds :
       (SaveWrites(s) /\ FirstMatch(scans[s].readApps, scans[s].newAppData) > 0) =>
         LET read == scans[s].readApps
             rec == scans[s].newAppData
             i == FirstMatch(read, rec)
         IN  storage' = [read EXCEPT ![i] =
                           [id          |-> rec.id,
                            name        |-> rec.name,
                            logo        |-> rec.logo,
                            sourceUrl   |-> rec.sourceUrl,
                            screenCount |-> rec.screenCount,
                            screens     |-> rec.screens,
                            dateAdded   |-> read[i].dateAdded,
                            dateUpdated |-> scans[s].savedAt]]]_vars

\* A save replaced the second entry of the store, added earlier, whose screens
\* were not those of the new scan.
C8_Witness ==
  /\ lastSave.index = 2
  /\ lastSave.replaced # NoApp
  /\ lastSave.replaced.screens = <<Cdn("a.png"), Cdn("b.png")>>
  /\ lastSave.app.screens = <<Cdn("a.png")>>
  /\ lastSave.app.dateAdded < lastSave.app.dateUpdated
  /\ storage[2] = lastSave.app

\* C9: when a save matches no entry of the store it read, the store it writes
\* is the new record, with dateAdded and dateUpdated the save time, followed
\* by the store it read.
C9_InsertAtFront ==
  [][\A s \in ScanIds :
       (SaveWrites(s) /\ FirstMatch(scans[s].readApps, scans[s].newAppData) = 0) =>
         LET rec == scans[s].newAppData
         IN  storage' =
               <<[id          |-> rec.id,
                  name        |-> rec.name,
                  logo        |-> rec.logo,
                  sourceUrl   |-> rec.sourceUrl,
                  screenCount |-> rec.screenCount,
                  screens     |-> rec.screens,
                  dateAdded   |-> scans[s].savedAt,
                  dateUpdated |-> scans[s].savedAt]>> \o scans[s].readApps]_vars

\* A save inserted a record in front of an entry saved earlier.
C9_Witness ==
  /\ lastSave.index = 1
  /\ lastSave.replaced = NoApp
  /\ Len(storage) = 2
  /\ storage[1] = lastSave.app
  /\ storage[2].dateUpdated < storage[1].dateAdded

\* C10: every collection in the store has screenCount equal to the length of
\* its screens sequence.
C10_ScreenCountIsLength ==
  \A i \in 1..Len(storage) : storage[i].screenCount = Len(storage[i].screens)

\* The dashboard deleted a collection and another one is left in the store.
C10_Witness ==
  /\ lastSave = NoSave
  /\ Len(storage) >= 1
  /\ Len(appsData) >= 1
  /\ storage = appsData
  /\ storage[1].screenCount = 2

\* C11: a scan whose loop converges with zero captured URLs ends with the
\* error "No screens found" and not with a success of count 0; no scan reaches
\* its save with an empty screens sequence, and no collection with an empty
\* screens sequence is in the store.
C11_NoEmptyCollection ==
  /\ \A s \in ScanIds :
       /\ scans[s].pc = "done" /\ scans[s].converged /\ scans[s].kept = 0 =>
            /\ scans[s].result = Failed("No screens found")
            /\ ~scans[s].wrote
       /\ scans[s].result.status = "success" => scans[s].result.count > 0
       /\ scans[s].pc \in {"storage_get", "storage_set"} =>
            /\ scans[s].kept > 0
            /\ scans[s].newAppData.screens # <<>>
  /\ \A i \in 1..Len(storage) : storage[i].screens # <<>>

\* A scan converged with nothing captured while the store holds a collection.
C11_Witness ==
  /\ \E s \in ScanIds :
       /\ scans[s].pc = "done"
       /\ scans[s].converged
       /\ scans[s].kept = 0
       /\ scans[s].result.status = "error"
  /\ storage # <<>>

\* C12: a scan becomes fatal with the retry error only when its harvests have
\* failed more often than the 3 retries it may make, that is, after it has
\* retried MAX_RETRY_ATTEMPTS times.
C12_FatalOnlyBeyondBudget ==
  [][\A s \in ScanIds :
       (/\ scans[s].pc \in LoopWaits
        /\ scans'[s].pc = "done"
        /\ scans'[s].result = Failed("Scraping failed after retries"))
       => scans[s].retryCount >= MAX_RETRY_ATTEMPTS]_vars

\* C13: a scan whose storage call failed ends with status error; its message
\* is the quota message exactly when the failure was a quota violation, and
\* the generic "Failed to save" message otherwise.
C13_QuotaDistinguished ==
  \A s \in ScanIds :
     scans[s].pc = "done" /\ scans[s].failure # "none" =>
        /\ scans[s].result.status = "error"
        /\ scans[s].failure = "quota" <=>
              scans[s].result.message =
                 "Storage quota exceeded. Try clearing some apps first."
        /\ scans[s].failure # "quota" => scans[s].result.message = "Failed to save"

\* A write was rejected for exceeding the quota and the scan has reported it.
C13_Witness ==
  \E s \in ScanIds :
     /\ scans[s].pc = "done"
     /\ scans[s].failure = "quota"
     /\ scans[s].result.status = "error"

\* C14: the store changes only in the step in which the set of a scan that
\* converged with at least one URL resolves; that scan had not written before,
\* the new store is the whole sequence it built from the store it read, and it
\* ends with success.  A scan that ended with error or aborted has not written.
C14_SingleWriteOnSuccess ==
  [][/\ storage' # storage =>
          \E s \in ScanIds :
             /\ scans[s].pc = "storage_set"
             /\ ~scans[s].wrote
             /\ scans[s].converged
             /\ scans[s].kept > 0
             /\ storage' = Upsert(scans[s].readApps, scans[s].newAppData,
                                  scans[s].existingIndex)
             /\ scans'[s].pc = "done"
             /\ scans'[s].wrote
             /\ scans'[s].result.status = "success"
     /\ \A s \in 1..Len(scans') :
          /\ scans'[s].pc = "done" /\ scans'[s].result.status \in {"error", "aborted"}
               => ~scans'[s].wrote
          /\ (s \in ScanIds /\ scans[s].pc # "done" /\ scans'[s].pc = "done"
                /\ scans'[s].result.status \in {"error", "aborted"})
               => storage' = storage]_vars

\* A scan failed in its write while the store held a collection saved before.
C14_Witness ==
  /\ storage # <<>>
  /\ \E s \in ScanIds :
       /\ scans[s].pc = "done"
       /\ scans[s].failure # "none"
       /\ scans[s].converged
       /\ scans[s].result.status = "error"

\* C15: an accepted start_scrape has no response while its invocation runs
\* and exactly one once it has settled, with status success, aborted or error,
\* whichever exception the invocation met.
C15_OneTerminalResponse ==
  \A s \in ScanIds :
     /\ scans[s].pc # "done" => scans[s].responses = 0 /\ scans[s].result = NoResult
     /\ scans[s].pc = "done" =>
          /\ scans[s].responses = 1
          /\ scans[s].result.status \in {"success", "aborted", "error"}

\* A second invocation ended on the exception of its metadata extraction.
C15_Witness ==
  /\ started > 1
  /\ \E s \in ScanIds :
       /\ scans[s].pc = "done"
       /\ scans[s].result = Failed("URI malformed")
       /\ scans[s].responses = 1

\* C16: an accepted start_scrape on a page whose name resolves to the empty
\* string settles at once with the error "Could not detect app name": the page
\* is not scrolled, nothing is harvested or notified, the store is not touched.
C16_NoNameFailsFirst ==
  [][(started' = started + 1 /\ ~MetaThrows(page) /\ getPageMeta(page).name = <<>>) =>
       /\ page' = page
       /\ storage' = storage
       /\ \A s \in 1..Len(scans') :
            (s \notin ScanIds \/ scans'[s] # scans[s]) =>
               /\ scans'[s].pc = "done"
               /\ scans'[s].result = Failed("Could not detect app name")
               /\ scans'[s].iters = 0
               /\ scans'[s].harvested = <<>>
               /\ scans'[s].readApps = <<>>
               /\ ~scans'[s].wrote]_vars

\* A scan of the page without a name has failed, the page still scrolled as
\* the user left it.
C16_Witness ==
  /\ getPageMeta(page).name = <<>>
  /\ page.scrollY > 0
  /\ \E s \in ScanIds :
       /\ scans[s].pc = "done"
       /\ scans[s].result = Failed("Could not detect app name")

\* C18: the metadata of an invocation is what getPageMeta returns when the
\* start_scrape is handled and stays as it is while the invocation runs; the
\* name, logo and sourceUrl of the record its save writes are that metadata,
\* and the entry it overwrites is found with that name, whatever the page
\* shows by then.
C18_MetaFromScanStart ==
  [][/\ \A s \in 1..Len(scans') :
          (/\ scans'[s].pc = "initial_delay"
           /\ s \in ScanIds => scans[s].pc = "done")
          => scans'[s].initialMeta = getPageMeta(page)
     /\ \A s \in ScanIds :
          /\ scans[s].pc # "done" /\ scans'[s].pc # "done" =>
               scans'[s].initialMeta = scans[s].initialMeta
          /\ SaveWrites(s) =>
               LET meta == scans[s].initialMeta
                   read == scans[s].readApps
                   i == FirstMatch(read, [name |-> meta.name,
                                          id |-> scans[s].newAppData.id])
                   k == IF i > 0 THEN i ELSE 1
               IN  /\ storage'[k].name = meta.name
                   /\ storage'[k].logo = meta.logo
                   /\ storage'[k].sourceUrl = meta.url
                   /\ \A j \in 1..Len(read) :
                        read[j].name = meta.name => i > 0 /\ i <= j]_vars

\* A save is about to write a record while the page shows another name,
\* another logo and another location than at the start of its scan.
C18_Witness ==
  \E s \in ScanIds :
     /\ scans[s].pc = "storage_set"
     /\ scans[s].newAppData.name # getPageMeta(page).name
     /\ scans[s].newAppData.logo # getPageMeta(page).logo
     /\ scans[s].newAppData.sourceUrl # page.href
     /\ scans[s].readApps # <<>>

\* A URL without its query string and its fragment.
StripQueryAndFragment(u) == SplitFirst(SplitFirst(u, "?"), "#")

\* The non-empty path segments of a URL: what follows scheme, "//" and host,
\* up to the query or fragment, without the slashes.
PathSegments(u) ==
  LET path == StripQueryAndFragment(u)
  IN  SelectSeq(SubSeq(path, 4, Len(path)), LAMBDA t : t # "/")

\* C19: the id of every saved record is the last non-empty path segment of
\* its source URL, and the slug of its name when the URL has no such segment.
C19_IdIsLastPathSegment ==
  \A i \in 1..Len(storage) :
     LET segs == PathSegments(storage[i].sourceUrl)
     IN  storage[i].id = IF segs # <<>> THEN <<segs[Len(segs)]>>
                                        ELSE Slugify(storage[i].name)

\* C20: the screen URLs a scan has captured, and those of every saved
\* collection, carry neither query nor fragment, and no two of one sequence
\* are the same URL once query and fragment are removed.
C20_ScreensNormalised ==
  LET Normal(q) ==
        /\ \A i \in 1..Len(q) : q[i] = StripQueryAndFragment(q[i])
        /\ \A i, j \in 1..Len(q) :
             StripQueryAndFragment(q[i]) = StripQueryAndFragment(q[j]) => i = j
  IN  /\ \A s \in ScanIds : Normal(scans[s].capturedImages)
      /\ \A i \in 1..Len(storage) : Normal(storage[i].screens)

\* C17: whenever the scan button is disabled by a scan it is enabled again
\* later, whatever the Page Agent does; and when handleScan is through with a
\* scan the status line shows a success, a warning (cancelled) or an error
\* (a failure or the timeout).
C17_LeavesScanning ==
  /\ trigger.disabled ~> ~trigger.disabled
  /\ [][(trigger.pc \in {"ping", "race"} /\ trigger'.pc \notin {"ping", "race"})
          => trigger'.type \in {"success", "warning", "error"}]_vars

\* The scan timed out: the button is usable again while the loop still runs.
C17_Witness ==
  /\ ~trigger.disabled
  /\ trigger.pc = "idle"
  /\ trigger.text = "Scan timeout - page may be too large"
  /\ \E s \in ScanIds : scans[s].pc \in InLoop

\* An absolute URL with scheme http or https.
HttpUrl(u) ==
  /\ Len(u) >= 3
  /\ u[1] \in {"http:", "https:"}
  /\ u[2] = "//"

\* C21: every URL a scan holds in its captured sequence, carries in the
\* record it saves, or that is among the screens of a stored collection is an
\* absolute http or https URL, whatever candidates the harvests returned.
C21_CapturedAreHttpUrls ==
  /\ \A s \in ScanIds :
       /\ \A i \in 1..Len(scans[s].capturedImages) : HttpUrl(scans[s].capturedImages[i])
       /\ \A i \in 1..Len(scans[s].newAppData.screens) :
            HttpUrl(scans[s].newAppData.screens[i])
  /\ \A a \in 1..Len(storage) :
       \A i \in 1..Len(storage[a].screens) : HttpUrl(storage[a].screens[i])

\* Harvests returned a candidate that is no http URL, and the scan is saving
\* the screens it captured.
C21_Witness ==
  \E s \in ScanIds :
     /\ scans[s].pc = "storage_get"
     /\ scans[s].newAppData.screens # <<>>
     /\ \E i \in 1..Len(scans[s].harvested) : ~HttpUrl(scans[s].harvested[i])

\* C22: get_meta answers with a logo that is not empty: the extracted
\* candidate when it is an http or https URL, the placeholder otherwise; and
\* no stored collection has an empty logo.
C22_LogoNeverEmpty ==
  /\ trigger.meta.answered =>
       /\ trigger.meta.error = ""
       /\ trigger.meta.meta.logo # <<>>
       /\ trigger.meta.meta.logo =
            IF HttpUrl(extractMainLogo(page))
            THEN extractMainLogo(page)
            ELSE Placeholder(AppName(page))
  /\ \A a \in 1..Len(storage) : storage[a].logo # <<>>

\* The component-specific candidates the extractor may choose from: outside
\* nav, header and banner, with a source and a positive rendered area.
Eligible(imgs) ==
  {i \in 1..Len(imgs) :
     /\ imgs[i].region \notin {"nav", "header", "banner"}
     /\ imgs[i].src # <<>>
     /\ imgs[i].w * imgs[i].h > 0}

\* C23: when the page has an eligible component-specific candidate, the
\* extractor returns the URL, without its query, of an eligible candidate
\* whose rendered area no other eligible candidate exceeds.
C23_LargestOutsideNav ==
  LET imgs == page.logoImgs
  IN  Eligible(imgs) # {} =>
        \E i \in Eligible(imgs) :
           /\ \A j \in Eligible(imgs) : imgs[j].w * imgs[j].h <= imgs[i].w * imgs[i].h
           /\ extractMainLogo(page) = StripQueryAndFragment(imgs[i].src)
           /\ (trigger.meta.answered /\ trigger.meta.error = ""
                 /\ HttpUrl(extractMainLogo(page)))
               => trigger.meta.meta.logo = StripQueryAndFragment(imgs[i].src)

\* The popup was told the logo of a page whose 40x40 logo in the navigation
\* bar precedes the 120x120 one outside it.
C23_Witness ==
  /\ page.logoImgs = <<LogoNav, LogoMain>>
  /\ trigger.meta.answered
  /\ trigger.meta.meta.logo = Cdn("logo.png")

\* q begins with p.
IsPrefix(p, q) == Len(p) <= Len(q) /\ SubSeq(q, 1, Len(p)) = p

\* C24: an iteration whose harvest succeeded while the popup was closed, so
\* that its progress notification was not delivered, is no retry: it leaves
\* the retry count and the URLs captured before it as they were, does the
\* stagnation bookkeeping and scrolls one viewport, or, on convergence, goes
\* on to the save with everything captured or fails for want of screens.
C24_LostProgressIsNoError ==
  [][\A s \in ScanIds :
       (/\ scans[s].pc \in LoopWaits
        /\ ~trigger.open
        /\ \/ scans'[s].iters = scans[s].iters + 1
           \/ scans'[s].converged /\ ~scans[s].converged)
       => LET before == Entered(scans[s], page)
          IN  \/ /\ scans'[s].pc = "scroll_delay"
                 /\ scans'[s].retryCount = before.retryCount
                 /\ IsPrefix(before.capturedImages, scans'[s].capturedImages)
                 /\ scans'[s].noNewContentCount = Stagnation(before, page).noNewContentCount
                 /\ scans'[s].totalHeight = Stagnation(before, page).totalHeight
                 /\ page' = scrollBy(page, before.viewportHeight)
              \/ /\ scans'[s].pc = "storage_get"
                 /\ scans'[s].converged
                 /\ Breaks(before, page)
                 /\ IsPrefix(before.capturedImages, scans'[s].newAppData.screens)
                 /\ scans'[s].newAppData.screens # <<>>
              \/ /\ scans'[s].pc = "done"
                 /\ scans'[s].converged
                 /\ Breaks(before, page)
                 /\ before.capturedImages = <<>>
                 /\ scans'[s].result = Failed("No screens found")]_vars

\* A scan converged with two screens, none of its notifications delivered.
C24_Witness ==
  \E s \in ScanIds :
     /\ scans[s].pc = "storage_get"
     /\ scans[s].iters >= 2
     /\ scans[s].lost = scans[s].iters
     /\ Len(scans[s].newAppData.screens) = 2

\* C25: a save that writes the store answers with status success, with the
\* length (at least 1) of the screens sequence of the entry it wrote as count,
\* and with isUpdate true exactly when the store it read held an entry with
\* the new record's name or id.
C25_SuccessReportsCountAndUpdate ==
  [][\A s \in ScanIds :
       SaveWrites(s) =>
         LET read == scans[s].readApps
             rec == scans[s].newAppData
             i == FirstMatch(read, rec)
             k == IF i > 0 THEN i ELSE 1
         IN  /\ scans'[s].result.status = "success"
             /\ scans'[s].result.count = Len(storage'[k].screens)
             /\ scans'[s].result.count >= 1
             /\ scans'[s].result.isUpdate <=>
                   \E j \in 1..Len(read) : Matches(read[j], rec)]_vars

\* One save has reported an update of two screens after another had reported
\* an insert.
C25_Witness ==
  /\ Len(storage) = 1
  /\ lastSave.replaced # NoApp
  /\ \E s \in ScanIds :
       /\ scans[s].pc = "done"
       /\ scans[s].result.status = "success"
       /\ scans[s].result.isUpdate
       /\ scans[s].result.count = 2

\* C26: a dashboard delete that changes the store leaves in it exactly the
\* collections it held at that moment, in their order, without those of the
\* deleted collection's id.
C26_DeleteRemovesOnlyThat ==
  [][(currentApp # NoApp /\ currentApp' = NoApp /\ storage' # storage)
       => storage' = WithoutApp(storage, currentApp.id)]_vars

\* C27: when a save writes the store back, the store is still as that save
\* read it: nothing has written it in between.
C27_NoWriteBetweenReadAndWrite ==
  [][\A s \in ScanIds : SaveWrites(s) => storage = scans[s].readApps]_vars

\* C28: the near-limit boolean of a check_storage answer is true exactly when
\* the bytes in use it reports exceed 80% of the quota.
C28_NearLimitIffOver80 ==
  (worker.asked /\ ~worker.result.failed)
    => (worker.result.nearLimit
          <=> worker.result.bytesInUse * 10 > QuotaBytes * 8)

\* C29: a scan whose save was suspended on the storage read or write when
\* abort_scrape was answered persists nothing and does not report success.
C29_AbortDuringSavePersistsNothing ==
  \A s \in ScanIds :
     scans[s].abortedIn \in {"storage_get", "storage_set"} =>
        /\ ~scans[s].wrote
        /\ scans[s].pc = "done" => scans[s].result.status # "success"

\* C30: a scan that was suspended in a wait of a loop iteration when
\* abort_scrape set the flag takes no further loop step: when that wait ends
\* it ends as aborted, without another harvest, progress notification or
\* scroll.
C30_AbortedScanTakesNoFurtherStep ==
  [][\A s \in ScanIds :
        (scans[s].abortedIn \in InLoop /\ scans[s].pc \in InLoop)
          => \/ scans'[s] = scans[s]
             \/ /\ scans'[s].pc = "done"
                /\ scans'[s].result.status = "aborted"]_vars

\* C31: at the end of every loop iteration the stagnation counter is the
\* number of latest iterations in a row that each saw the viewport at the
\* bottom with the height unchanged, and a loop that ended by convergence saw
\* that in its last 2 iterations in a row.
C31_CounterIsConsecutive ==
  \A s \in ScanIds :
     /\ scans[s].pc = "scroll_delay" =>
          scans[s].noNewContentCount = scans[s].bottomStreak
     /\ scans[s].pc = "storage_get" =>
          scans[s].bottomStreak >= MAX_NO_CONTENT_ATTEMPTS

\* C32: with no abort_scrape, a scan in its loop keeps the in-progress flag
\* set, and it leaves the loop only in an iteration that sees the bottom with
\* the recorded height while the counter stands one short of the limit, or in
\* its third failed iteration: no number of iterations ends it otherwise.
C32_NoIterationCap ==
  /\ [](\A s \in ScanIds : scans[s].pc \in LoopWaits => isScraping)
  /\ [][\A s \in ScanIds :
          (scans[s].pc \in LoopWaits /\ scans'[s].pc \notin LoopWaits) =>
             LET sc == Entered(scans[s], page)
             IN  \/ /\ atBottom(page)
                    /\ page.scrollHeight = sc.totalHeight
                    /\ sc.noNewContentCount + 1 >= MAX_NO_CONTENT_ATTEMPTS
                    /\ scans'[s].converged
                 \/ /\ sc.retryCount + 1 >= MAX_RETRY_ATTEMPTS
                    /\ scans'[s].pc = "done"
                    /\ scans'[s].result.status = "error"
                    /\ ~scans'[s].converged]_vars

\* A scan has run as many iterations as the model lets it and is still in its
\* loop with the flag set, the page having grown under it.
C32_Witness ==
  \E s \in ScanIds :
     /\ scans[s].pc = "scroll_delay"
     /\ scans[s].iters = MaxIter
     /\ scans[s].noNewContentCount < MAX_NO_CONTENT_ATTEMPTS
     /\ scans[s].retryCount < MAX_RETRY_ATTEMPTS
     /\ isScraping

\* C33: in every record of the store the id is the one derived from the URL
\* stored as the record's sourceUrl.
C33_IdFromSourceUrl ==
  \A i \in 1..Len(storage) :
     storage[i].id = AppId(storage[i].sourceUrl, storage[i].name)

\* C34: the step in which the scan timeout fires shows the timeout error and
\* enables the button, and changes nothing at the Page Agent or in the store;
\* a start_scrape that then arrives while the in-progress flag is set is
\* rejected and starts nothing.
C34_TimeoutStopsNothing ==
  /\ [][(/\ trigger.pc = "race"
          /\ trigger'.text = "Scan timeout - page may be too large")
           => /\ trigger'.type = "error"
              /\ trigger'.pc = "idle"
              /\ ~trigger'.disabled
              /\ UNCHANGED <<isScraping, scrapingAborted, scans, page, storage>>]_vars
  /\ [][(trigger.pc = "ping" /\ trigger'.pc = "race" /\ isScraping)
           => /\ trigger'.request = "rejected"
              /\ UNCHANGED <<isScraping, scrapingAborted, scans, storage>>]_vars

\* The timeout fired while the only scan was in its loop; the next
\* start_scrape was rejected as already in progress, and the scan then wrote
\* the store and reported success.
C34_Witness ==
  /\ trigger.timedOutIn \in InLoop
  /\ trigger.text = "Scrape already in progress"
  /\ started = 1
  /\ \E s \in ScanIds : /\ scans[s].wrote
                        /\ scans[s].result.status = "success"
  /\ storage # <<>>

\* C35: while a scan is in its loop its captured sequence holds no URL twice
\* and its seen set is the set of the sequence's elements; every step of the
\* loop, a failed iteration included, leaves the sequence captured so far as
\* a prefix of the sequence afterwards, and of the screens handed to the save.
C35_CapturedAppendOnly ==
  /\ [](\A s \in ScanIds :
          scans[s].pc \in LoopWaits =>
             LET c == scans[s].capturedImages
             IN  /\ \A i, j \in 1..Len(c) : i # j => c[i] # c[j]
                 /\ scans[s].scannedUrlSet = {c[i] : i \in 1..Len(c)})
  /\ [][\A s \in ScanIds :
          scans[s].pc \in LoopWaits =>
             /\ scans'[s].pc \in LoopWaits =>
                  IsPrefix(scans[s].capturedImages, scans'[s].capturedImages)
             /\ scans'[s].pc = "storage_get" =>
                  IsPrefix(scans[s].capturedImages, scans'[s].newAppData.screens)]_vars

\* A scan has just failed an iteration for the second time and still holds
\* the two URLs it captured before, its batches having repeated a URL.
C35_Witness ==
  \E s \in ScanIds :
     /\ scans[s].pc = "retry_delay"
     /\ scans[s].retryCount = 2
     /\ Len(scans[s].capturedImages) = 2
     /\ Len(Accepted(scans[s].harvested)) > 2

\* Scan s takes a step of its loop: something of it other than the record of
\* an abort_scrape changes.
LoopStep(s) ==
  /\ scans[s].pc \in LoopWaits
  /\ [scans'[s] EXCEPT !.abortedIn = scans[s].abortedIn,
                       !.abortedAt = scans[s].abortedAt] # scans[s]

\* C36: the retry count is below 3 while a scan loops; a step of the loop
\* taken with the cancellation flag set ends the scan as aborted; otherwise an
\* iteration whose harvest worked leaves the retry count as it was, a failed
\* one adds one to it and waits for the retry, and the scan ends with the
\* retries error exactly in the failed iteration that finds the count at 2.
C36_RetriesAreCumulative ==
  /\ [](\A s \in ScanIds :
          scans[s].pc \in LoopWaits => scans[s].retryCount < MAX_RETRY_ATTEMPTS)
  /\ [][\A s \in ScanIds :
          LoopStep(s) =>
             IF scrapingAborted
             THEN scans'[s].pc = "done" /\ scans'[s].result = Aborted
             ELSE IF scans'[s].pc \in LoopWaits
             THEN IF scans'[s].iters = scans[s].iters + 1
                  THEN scans'[s].retryCount = scans[s].retryCount
                  ELSE /\ scans'[s].iters = scans[s].iters
                       /\ scans'[s].pc = "retry_delay"
                       /\ scans'[s].retryCount = scans[s].retryCount + 1
             ELSE (scans'[s].result = Failed("Scraping failed after retries"))
                     <=> (/\ scans'[s].pc = "done"
                          /\ ~scans'[s].converged
                          /\ scans[s].retryCount = MAX_RETRY_ATTEMPTS - 1)]_vars

\* A scan failed two iterations and then harvested: it is in its scroll wait
\* with the count still at 2.
C36_Witness ==
  \E s \in ScanIds :
     /\ scans[s].pc = "scroll_delay"
     /\ scans[s].retryCount = 2
     /\ scans[s].iters >= 1
     /\ ~scrapingAborted

\* Every scan started so far has sent its terminal response.
AllSettled == scans # <<>> /\ \A s \in ScanIds : scans[s].pc = "done"

\* C37: when every scan has sent its terminal response the in-progress flag
\* is false, and a start_scrape handled then is accepted: it sets the flag
\* and starts a scan with an empty captured sequence and seen set and with
\* the retry count and the stagnation counter at 0.
C37_IdleAfterTerminalResponse ==
  /\ [](AllSettled => ~isScraping)
  /\ [][(AllSettled /\ lastStart' # lastStart) => lastStart'.accepted]_vars
  /\ [][(AllSettled /\ started' # started) =>
          LET sc == scans'[PlaceOf(scans)]
          IN  /\ isScraping'
              /\ ~scrapingAborted'
              /\ sc.pc = "initial_delay"
              /\ sc.capturedImages = <<>>
              /\ sc.scannedUrlSet = {}
              /\ sc.retryCount = 0
              /\ sc.noNewContentCount = 0]_vars

\* A second scan has started in the place of the first, which had sent its
\* terminal response.
C37_Witness ==
  /\ started = 2
  /\ Len(scans) = 1
  /\ scans[1].pc = "initial_delay"
  /\ lastStart.accepted
  /\ isScraping

\* No scan is waiting for anything: none was started or each has sent its
\* terminal response.
NoScanActive == \A s \in ScanIds : scans[s].pc = "done"

\* C38: an abort_scrape handled while no scan is active leaves the store and
\* every scan's outcome as they are; an accepted start_scrape clears the
\* cancellation flag, and a scan ends as aborted only if an abort_scrape came
\* while it was running.
C38_IdleAbortCancelsNothing ==
  /\ [][(NoScanActive /\ scrapingAborted' /\ ~scrapingAborted)
          => (~isScraping' /\ UNCHANGED <<scans, storage, started>>)]_vars
  /\ [][started' # started => ~scrapingAborted']_vars
  /\ [](\A s \in ScanIds :
          (scans[s].pc = "done" /\ scans[s].result.status = "aborted")
             => scans[s].abortedIn # "none")

\* A scan whose start_scrape found the flag of an earlier abort_scrape set
\* has saved and reported success, no abort_scrape having come during it.
C38_Witness ==
  \E s \in ScanIds :
     /\ scans[s].clearedFlag
     /\ scans[s].abortedIn = "none"
     /\ scans[s].wrote
     /\ scans[s].result.status = "success"

====
